---- MODULE Spec2Model ----
(***************************************************************************)
(* News dashboard (App.tsx + TabSettingsModal): the per-tab article cache, *)
(* the fetch pipeline with its suspension at the network call, the tab     *)
(* store with its staged settings editor, and the render decision.         *)
(***************************************************************************)
EXTENDS Integers, Sequences, FiniteSets, Bags, TLC

VARIABLES
  mounted,         \* the mount effects have run
  tabs,            \* committed tab list (useState tabs)
  activeTabId,     \* useState activeTabId
  newsList,        \* useState newsList
  loading,         \* useState loading
  error,           \* useState error
  newsCache,       \* useRef newsCache: a function whose domain is the ids that have an entry
  isSettingsOpen,  \* useState isSettingsOpen
  editingTabs,     \* TabSettingsModal working copy
  now,             \* Date.now(), in milliseconds since the page was opened
  inflight,        \* bag of the fetchNews invocations suspended at `await fetch`
  last,            \* the last step a fetchNews invocation took
  feed,            \* the items the feed of the session's first request holds upstream
  feedTitle,       \* data.feed.title of the upstream feed
  maxTabs,         \* useState maxTabs
  editingMaxTabs,  \* TabSettingsModal working copy of the maximum
  typedMax,        \* the number last typed into the maximum field since the editor opened
  edits,           \* add, reorder and maximum-field operations made so far
  readIds,         \* useState readIds
  hiddenSources,   \* useState hiddenSources
  storage,         \* localStorage: the four keys the dashboard writes
  reloads,         \* page reloads so far
  beforeReload,    \* the persisted state in memory just before the last reload
  showHiddenArticles  \* useState showHiddenArticles

\* The state of the dashboard itself.
appVars == <<mounted, tabs, activeTabId, newsList, loading, error, newsCache,
             isSettingsOpen, editingTabs, now, inflight, last>>

\* The upstream content.
upstreamVars == <<feed, feedTitle>>

\* The maximum tab count and the editor's own state besides editingTabs.
storeVars == <<maxTabs, editingMaxTabs, typedMax, edits>>

\* The read and hidden sets and what persists over a reload.
sessionVars == <<readIds, hiddenSources, storage, reloads, beforeReload, showHiddenArticles>>

vars == <<appVars, upstreamVars, storeVars, sessionVars>>

-----------------------------------------------------------------------------
(* Bounds *)

MaxInFlight == 2        \* requests awaiting their response at the same time
MaxTicks == 2           \* clock advances explored
TickStep == 150000      \* milliseconds per clock advance
MaxFeedLen == 3         \* items of a short upstream feed
MaxExtra == 2           \* items a long upstream feed has beyond the truncation size
MaxEdits == 2           \* add, reorder and maximum-field operations explored per session
MaxReloads == 1         \* page reloads explored
MaxTitleLen == 5        \* tokens of an upstream title

(* Program constants *)

CACHE_DURATION == 5 * 60 * 1000
MaxArticles == 12

NoError == "NoError"        \* error === null
SoftError == "fetch failed, showing previous data"   \* message set when a cache entry exists
HardError == "failed to load news, retry later"     \* message set when nothing is cached
Undefined == "undefined"    \* a missing property of an upstream item
NoGuid == ""                \* falsy guid

-----------------------------------------------------------------------------
(* Tabs *)

\* A tab configuration read from local storage on start: a search tab and a
\* direct-feed tab of the defaults (the other defaults were deleted earlier).
SavedTabs ==
  << [id |-> "tab-1", keyword |-> "bus cuts"],
     [id |-> "tab-4", keyword |-> "https://www.gizmodo.jp/index.xml"] >>

\* The maximum tab count read from local storage on start.
SavedMaxTabs == 3

\* No number typed into the maximum field yet.
NoInput == 0 - 1

\* The id of every tab a fetch is made for: the tabs read from local storage.
TabIds == {"tab-1", "tab-4"}

\* Values typed into a keyword field.
KeywordInputs == {"https://www.gizmodo.jp/index.xml"}

\* Every keyword a tab can have: a stored one, a typed one, the one of a new tab.
Keywords == {SavedTabs[i].keyword : i \in 1..Len(SavedTabs)} \cup KeywordInputs \cup {"news"}

\* currentTabs.find(t => t.id === tabId), as the position of the first match;
\* 0 when find returns undefined.
FindTab(tabId, currentTabs) ==
  LET S == {i \in 1..Len(currentTabs) : currentTabs[i].id = tabId}
  IN IF S = {} THEN 0 ELSE CHOOSE i \in S : \A j \in S : i <= j

TabIdsOf(currentTabs) == {currentTabs[i].id : i \in 1..Len(currentTabs)}

-----------------------------------------------------------------------------
(* Upstream responses and their normalisation *)

\* new Date(item.pubDate).getTime() for the publish-date strings the feeds
\* below use; -1 stands for NaN (an unparsable date).
NaN == 0 - 1
DateParse(raw) ==
  CASE raw = "Mon, 01 Jan 2024 09:00:00 GMT" -> 1704099600
    [] raw = "2024-01-02 09:00:00"           -> 1704186000
    [] raw = "2024-01-03 09:00:00"           -> 1704272400
    [] OTHER                                 -> NaN

\* The index as the template literal prints it.
IndexStr(i) == ToString(i)

\* Text is a sequence of tokens: a word without blanks and hyphens, " " or
\* "-".  The empty sequence is the empty string, which is falsy.
Sep == <<" ", "-", " ">>
UnknownSource == <<"Unknown", " ", "Source">>

\* A missing title: title.includes throws on it.
UndefinedTitle == <<Undefined>>

\* What getAttribute and extractImageFromHtml return for "nothing".
Null == "null"

\* !value for an address: null and the empty string are falsy.
Falsy(value) == value = Null \/ value = ""

\* Markup is a sequence of elements; an img element carries its src
\* attribute, Null when it has none.
Para == [tag |-> "p", src |-> Null]
Img(src) == [tag |-> "img", src |-> src]

ItemOld == [guid |-> "guid-old", title |-> <<"Old", " ", "story">>,
            pubDate |-> "Mon, 01 Jan 2024 09:00:00 GMT",
            author |-> <<"Daily">>, thumbnail |-> "", enclosureLink |-> "",
            description |-> <<>>, content |-> <<>>]
ItemNew == [guid |-> NoGuid, title |-> <<"New", " ", "story", " ", "-", " ", "Herald">>,
            pubDate |-> "2024-01-03 09:00:00",
            author |-> <<>>, thumbnail |-> "", enclosureLink |-> "",
            description |-> <<>>, content |-> <<>>]
ItemMid == [guid |-> "guid-mid", title |-> <<"Mid", " ", "story">>,
            pubDate |-> "2024-01-02 09:00:00",
            author |-> <<"Herald">>, thumbnail |-> "", enclosureLink |-> "",
            description |-> <<>>, content |-> <<>>]
ItemNoTitle == [guid |-> "guid-x", title |-> UndefinedTitle,
                pubDate |-> "2024-01-02 09:00:00",
                author |-> <<>>, thumbnail |-> "", enclosureLink |-> "",
                description |-> <<>>, content |-> <<>>]

\* data.feed.title of the answers below.
FeedTitle == <<"Feed">>

\* What the feed-to-JSON API can answer: response.ok, the status field of the
\* body, the feed title and the items.
Responses ==
  { [ok |-> TRUE,  status |-> "ok",    feedTitle |-> FeedTitle, items |-> <<ItemOld, ItemNew>>],
    [ok |-> TRUE,  status |-> "ok",    feedTitle |-> FeedTitle, items |-> <<ItemMid>>],
    [ok |-> TRUE,  status |-> "ok",    feedTitle |-> FeedTitle, items |-> <<ItemMid, ItemNoTitle>>],
    [ok |-> TRUE,  status |-> "error", feedTitle |-> FeedTitle, items |-> <<>>],
    [ok |-> FALSE, status |-> "error", feedTitle |-> FeedTitle, items |-> <<>>] }

\* Upstream items of the feeds below: with and without a guid, two titles,
\* the three publish dates.
FeedItems ==
  [ guid : {NoGuid, "guid-a"},
    title : {<<"Story", " ", "A">>, <<"Story", " ", "B">>},
    pubDate : {"Mon, 01 Jan 2024 09:00:00 GMT", "2024-01-02 09:00:00", "2024-01-03 09:00:00"},
    author : {<<>>}, thumbnail : {""}, enclosureLink : {""},
    description : {<<>>}, content : {<<>>} ]

\* k copies of one item.
Pad(k, item) == [i \in 1..k |-> item]

\* Every item list of at most MaxFeedLen items.
ShortFeeds == UNION {[1..n -> FeedItems] : n \in 0..MaxFeedLen}

\* Item lists longer than the truncation size: one or two items before or
\* after a run of guid-less items of one date.
LongFeeds ==
  LET Heads == UNION {[1..n -> FeedItems] : n \in 1..2}
      Pads == {item \in FeedItems : item.guid = NoGuid /\ item.title = <<"Story", " ", "A">>}
  IN UNION { { Pad(n - Len(h), item) \o h, h \o Pad(n - Len(h), item) } :
               h \in Heads, item \in Pads, n \in (MaxArticles + 1)..(MaxArticles + MaxExtra) }

Feeds == ShortFeeds \cup LongFeeds

\* The map callback throws for this item: title.includes on a missing title
\* (TypeError), toISOString on an invalid date (RangeError).
ItemThrows(item) == item.title = UndefinedTitle \/ DateParse(item.pubDate) = NaN

\* The separator ' - ' stands at position i of the text.
SepAt(text, i) == i + 2 <= Len(text) /\ SubSeq(text, i, i + 2) = Sep

\* title.includes(' - ')
Includes(title) == \E i \in 1..Len(title) : SepAt(title, i)

\* title.split(' - '): the pieces between the occurrences found from the
\* left, each search starting after the occurrence before it.
RECURSIVE Split(_)
Split(title) ==
  IF ~Includes(title) THEN <<title>>
  ELSE LET i == CHOOSE i \in 1..Len(title) :
                  /\ SepAt(title, i)
                  /\ \A j \in 1..(i - 1) : ~SepAt(title, j)
       IN <<SubSeq(title, 1, i - 1)>> \o Split(SubSeq(title, i + 3, Len(title)))

\* parts.join(' - ')
RECURSIVE Join(_)
Join(parts) ==
  IF parts = <<>> THEN <<>>
  ELSE IF Len(parts) = 1 THEN parts[1]
  ELSE parts[1] \o Sep \o Join(Tail(parts))

\* String.prototype.trim
RECURSIVE Trim(_)
Trim(text) ==
  IF text # <<>> /\ text[1] = " " THEN Trim(Tail(text))
  ELSE IF text # <<>> /\ text[Len(text)] = " " THEN Trim(SubSeq(text, 1, Len(text) - 1))
  ELSE text

\* The title and source of the article: source = item.author ||
\* data.feed.title || 'Unknown Source', replaced by parts.pop() when the title
\* includes ' - '; the article stores source.trim().
SplitTitle(item, dataFeedTitle) ==
  LET parts == Split(item.title)
  IN IF Includes(item.title)
       THEN [title |-> Join(SubSeq(parts, 1, Len(parts) - 1)),
             source |-> Trim(parts[Len(parts)])]
       ELSE [title |-> item.title,
             source |-> Trim(IF item.author # <<>> THEN item.author
                             ELSE IF dataFeedTitle # <<>> THEN dataFeedTitle ELSE UnknownSource)]

\* extractImageFromHtml: the src attribute of the first img element.
extractImageFromHtml(htmlContent) ==
  LET imgs == {i \in 1..Len(htmlContent) : htmlContent[i].tag = "img"}
  IN IF htmlContent = <<>> \/ imgs = {} THEN Null
     ELSE htmlContent[CHOOSE i \in imgs : \A j \in imgs : i <= j].src

\* encodeURIComponent for text of words, blanks and hyphens.
RECURSIVE EncodeURIComponent(_)
EncodeURIComponent(text) ==
  IF text = <<>> THEN ""
  ELSE (IF text[1] = " " THEN "%20" ELSE text[1]) \o EncodeURIComponent(Tail(text))

\* The fallback image, seeded by item.title.
Placeholder(item) ==
  "https://picsum.photos/seed/" \o EncodeURIComponent(item.title) \o "/800/450"

\* Variant of ImageUrl: the content markup is looked at before the description markup.
ImageUrlContentFirst(item) ==
  LET first == IF ~Falsy(item.thumbnail) THEN item.thumbnail
               ELSE IF ~Falsy(item.enclosureLink) THEN item.enclosureLink
               ELSE IF item.content # <<>> THEN extractImageFromHtml(item.content)
               ELSE Null
      second == IF Falsy(first) /\ item.description # <<>>
                  THEN extractImageFromHtml(item.description) ELSE first
  IN IF Falsy(second) THEN Placeholder(item) ELSE second

\* The image address: thumbnail, else enclosure link, else the img of the
\* description; when that gave nothing the img of the content; when that
\* gave nothing the placeholder.
ImageUrl(item) ==
  LET first == IF ~Falsy(item.thumbnail) THEN item.thumbnail
               ELSE IF ~Falsy(item.enclosureLink) THEN item.enclosureLink
               ELSE IF item.description # <<>> THEN extractImageFromHtml(item.description)
               ELSE Null
      second == IF Falsy(first) /\ item.content # <<>>
                  THEN extractImageFromHtml(item.content) ELSE first
  IN IF Falsy(second) THEN Placeholder(item) ELSE second

\* The map callback: one upstream item at 0-based position index of data.
MapItem(tabId, item, index, dataFeedTitle) ==
  LET split == SplitTitle(item, dataFeedTitle) IN
  [ id       |-> IF item.guid # NoGuid THEN <<item.guid>>
                 ELSE <<tabId, IndexStr(index), item.pubDate>>,
    category |-> tabId,
    title    |-> split.title,
    pubDate  |-> DateParse(item.pubDate),
    imageUrl |-> ImageUrl(item),
    source   |-> split.source ]

MapItems(tabId, data) ==
  [i \in 1..Len(data.items) |-> MapItem(tabId, data.items[i], i - 1, data.feedTitle)]

\* Variant of SortByPubDateDesc: an element is inserted before the elements
\* of its own date, so equal dates come out in reverse upstream order.
RECURSIVE SortByPubDateDescUnstable(_)
SortByPubDateDescUnstable(s) ==
  IF s = <<>> THEN <<>>
  ELSE LET front == SortByPubDateDescUnstable(SubSeq(s, 1, Len(s) - 1))
           x == s[Len(s)]
           k == Cardinality({i \in 1..Len(front) : front[i].pubDate > x.pubDate})
       IN SubSeq(front, 1, k) \o <<x>> \o SubSeq(front, k + 1, Len(front))

\* Array.prototype.sort with (a, b) => b.pubDate - a.pubDate: stable, most
\* recent first.  Insert each element after the elements that are not older.
RECURSIVE SortByPubDateDesc(_)
SortByPubDateDesc(s) ==
  IF s = <<>> THEN <<>>
  ELSE LET front == SortByPubDateDesc(SubSeq(s, 1, Len(s) - 1))
           x == s[Len(s)]
           k == Cardinality({i \in 1..Len(front) : front[i].pubDate >= x.pubDate})
       IN SubSeq(front, 1, k) \o <<x>> \o SubSeq(front, k + 1, Len(front))

\* Variant of Slice12: nothing is cut off.
SliceAll(s) == s

\* slice(0, 12)
Slice12(s) == SubSeq(s, 1, IF Len(s) < MaxArticles THEN Len(s) ELSE MaxArticles)

\* Variant of Normalize: the list is cut to 12 before it is sorted.
NormalizeSliceFirst(tabId, data) == SortByPubDateDesc(Slice12(MapItems(tabId, data)))

\* data.items.map(...).sort(...).slice(0, 12)
Normalize(tabId, data) == Slice12(SortByPubDateDesc(MapItems(tabId, data)))

\* The try block reaches the cache store: response.ok, status "ok" and no
\* item makes the map callback throw.
Succeeds(resp) ==
  /\ resp.ok
  /\ resp.status = "ok"
  /\ \A i \in 1..Len(resp.items) : ~ItemThrows(resp.items[i])

-----------------------------------------------------------------------------
(* Local storage *)

\* The maximum tab count of a first start.
DEFAULT_MAX_TABS == 7

\* JSON.stringify(tabs) and JSON.parse of it: the text lists the fields of
\* each tab in order.
StringifyTabs(list) == [i \in 1..Len(list) |-> <<list[i].id, list[i].keyword>>]
ParseTabs(json) == [i \in 1..Len(json) |-> [id |-> json[i][1], keyword |-> json[i][2]]]

\* parseInt(text, 10) for the texts maxTabs.toString() produces; NaN otherwise.
ParseInt(text) ==
  LET S == {n \in 0..99 : ToString(n) = text}
  IN IF S = {} THEN NaN ELSE CHOOSE n \in S : TRUE

\* The initial value of maxTabs from the stored text.
LoadMaxTabs(text) ==
  LET parsed == ParseInt(text)
  IN IF parsed # NaN /\ parsed > 0 THEN parsed ELSE DEFAULT_MAX_TABS

\* JSON.stringify(Array.from(set)): the members in some order, each once.
ArrayFrom(set) ==
  CHOOSE arr \in [1..Cardinality(set) -> set] : {arr[i] : i \in 1..Cardinality(set)} = set

\* new Set(array)
NewSet(arr) == {arr[i] : i \in 1..Len(arr)}

\* A key that was never written, and a key holding an array.
Absent == [present |-> FALSE, value |-> <<>>]
Stored(arr) == [present |-> TRUE, value |-> arr]

\* Variant of LoadSet: the stored array is not read back.
LoadSetEmpty(item) == {}

\* The load effect for one key: the state stays the empty set when the key is absent.
LoadSet(item) == IF item.present THEN NewSet(item.value) ELSE {}

\* What a start finds in local storage: the tabs and the maximum of an
\* earlier session, nothing read or hidden yet.
SavedStorage ==
  [ tabs |-> StringifyTabs(SavedTabs),
    maxTabs |-> ToString(SavedMaxTabs),
    readIds |-> Absent,
    hiddenSources |-> Absent ]

\* The four pieces of state the dashboard persists.
Persisted(tabList, max, read, hidden) ==
  [tabs |-> tabList, maxTabs |-> max, readIds |-> read, hiddenSources |-> hidden]

-----------------------------------------------------------------------------
(* The cache *)

EmptyCache == [t \in {} |-> <<>>]

\* delete newsCache.current[tabId]
DeleteEntry(cache, tabId) == [t \in DOMAIN cache \ {tabId} |-> cache[t]]

\* Variant of StoreEntry: the new entry replaces the whole cache.
StoreEntryOnly(cache, tabId, data) ==
  [t \in {tabId} |-> [data |-> data, timestamp |-> now]]

\* Variant of StoreEntry: a result for a tab that is no longer active, or that
\* already has an entry written at this clock value, is not stored.
StoreEntryIfCurrent(cache, tabId, data) ==
  IF tabId # activeTabId \/ (tabId \in DOMAIN cache /\ cache[tabId].timestamp = now)
    THEN cache
    ELSE [t \in DOMAIN cache \cup {tabId} |->
            IF t = tabId THEN [data |-> data, timestamp |-> now] ELSE cache[t]]

\* newsCache.current[tabId] = { data, timestamp: Date.now() }
StoreEntry(cache, tabId, data) ==
  [t \in DOMAIN cache \cup {tabId} |->
     IF t = tabId THEN [data |-> data, timestamp |-> now] ELSE cache[t]]

\* Variant of CacheFresh: an entry exactly CACHE_DURATION old still counts as fresh.
CacheFreshInclusive(cache, tabId) ==
  /\ tabId \in DOMAIN cache
  /\ now - cache[tabId].timestamp <= CACHE_DURATION

\* cached && (Date.now() - cached.timestamp < CACHE_DURATION)
CacheFresh(cache, tabId) ==
  /\ tabId \in DOMAIN cache
  /\ now - cache[tabId].timestamp < CACHE_DURATION

-----------------------------------------------------------------------------
(* fetchNews up to its first suspension *)

\* A fetchNews invocation suspended at the network call.  tabId is the local
\* the continuation uses; forcedOverEntry records that the invocation was
\* started by a control that deletes the tab's entry first, on a tab that had
\* an entry at that moment; keyword is activeTab.keyword, from which the
\* address of the request was built.
Request(tabId, forcedOverEntry, keyword) ==
  [tabId |-> tabId, forcedOverEntry |-> forcedOverEntry, keyword |-> keyword]

\* fetchNews(tabId, currentTabs), called in a handler that has already made
\* the cache `cache` and the article list `list`.
fetchNews(tabId, currentTabs, cache, list, forcedOverEntry) ==
  LET k == FindTab(tabId, currentTabs) IN
  /\ newsCache' = cache
  /\ error' = NoError
  /\ IF k = 0 THEN
       /\ loading' = FALSE
       /\ newsList' = list
       /\ inflight' = inflight
       /\ last' = "unknown"
     ELSE IF CacheFresh(cache, tabId) THEN
       /\ loading' = FALSE
       /\ newsList' = cache[tabId].data
       /\ inflight' = inflight
       /\ last' = "hit"
     ELSE
       /\ BagCardinality(inflight) < MaxInFlight
       /\ loading' = TRUE
       /\ newsList' = list
       /\ inflight' = inflight (+) SetToBag({Request(tabId, forcedOverEntry, currentTabs[k].keyword)})
       /\ last' = "request"

-----------------------------------------------------------------------------
(* Initial state and handlers *)

Init ==
  /\ mounted = FALSE
  /\ tabs = SavedTabs
  /\ activeTabId = SavedTabs[1].id
  /\ newsList = <<>>
  /\ loading = TRUE
  /\ error = NoError
  /\ newsCache = EmptyCache
  /\ isSettingsOpen = FALSE
  /\ editingTabs = SavedTabs
  /\ now = 0
  /\ inflight = EmptyBag
  /\ last = "none"
  /\ feed = <<>>
  /\ feedTitle = FeedTitle
  /\ maxTabs = SavedMaxTabs
  /\ editingMaxTabs = SavedMaxTabs
  /\ typedMax = NoInput
  /\ edits = 0
  /\ readIds = {}
  /\ hiddenSources = {}
  /\ storage = SavedStorage
  /\ reloads = 0
  /\ beforeReload = Persisted(SavedTabs, SavedMaxTabs, {}, {})
  /\ showHiddenArticles = FALSE

\* The effects at mount: the load effect reads the read and hidden sets, the
\* sync effects write the four keys (after the render with the loaded sets),
\* the effect on [activeTabId] fetches.
Mount ==
  /\ ~mounted
  /\ mounted' = TRUE
  /\ readIds' = LoadSet(storage.readIds)
  /\ hiddenSources' = LoadSet(storage.hiddenSources)
  /\ storage' = [ tabs |-> StringifyTabs(tabs),
                  maxTabs |-> ToString(maxTabs),
                  readIds |-> Stored(ArrayFrom(readIds')),
                  hiddenSources |-> Stored(ArrayFrom(hiddenSources')) ]
  /\ fetchNews(activeTabId, tabs, newsCache, newsList, FALSE)
  /\ UNCHANGED <<tabs, activeTabId, isSettingsOpen, editingTabs, now>>
  /\ UNCHANGED <<upstreamVars, storeVars, reloads, beforeReload, showHiddenArticles>>

\* Date.now() advances.
Tick ==
  /\ now + TickStep <= MaxTicks * TickStep
  /\ now' = now + TickStep
  /\ UNCHANGED <<mounted, tabs, activeTabId, newsList, loading, error, newsCache,
                 isSettingsOpen, editingTabs, inflight, last>>
  /\ UNCHANGED <<upstreamVars, sessionVars, storeVars>>

\* A tab button: setActiveTabId, then the effect on [activeTabId].
SwitchTab(tabId) ==
  /\ mounted
  /\ tabId \in TabIdsOf(tabs)
  /\ tabId # activeTabId
  /\ activeTabId' = tabId
  /\ fetchNews(tabId, tabs, newsCache, newsList, FALSE)
  /\ UNCHANGED <<mounted, tabs, isSettingsOpen, editingTabs, now>>
  /\ UNCHANGED <<upstreamVars, sessionVars, storeVars>>

\* Variant of Refresh: the button is not disabled while loading.
RefreshWhileLoading ==
  /\ mounted
  /\ fetchNews(activeTabId, tabs, DeleteEntry(newsCache, activeTabId), newsList,
               activeTabId \in DOMAIN newsCache)
  /\ UNCHANGED <<mounted, tabs, activeTabId, isSettingsOpen, editingTabs, now>>
  /\ UNCHANGED <<upstreamVars, sessionVars, storeVars>>

\* Variant of Refresh: the entry is not deleted before fetchNews.
RefreshKeepEntry ==
  /\ mounted
  /\ ~loading
  /\ fetchNews(activeTabId, tabs, newsCache, newsList, activeTabId \in DOMAIN newsCache)
  /\ UNCHANGED <<mounted, tabs, activeTabId, isSettingsOpen, editingTabs, now>>
  /\ UNCHANGED <<upstreamVars, sessionVars, storeVars>>

\* The forced-refresh button, disabled while loading.
Refresh ==
  /\ mounted
  /\ ~loading
  /\ fetchNews(activeTabId, tabs, DeleteEntry(newsCache, activeTabId), newsList,
               activeTabId \in DOMAIN newsCache)
  /\ UNCHANGED <<mounted, tabs, activeTabId, isSettingsOpen, editingTabs, now>>
  /\ UNCHANGED <<upstreamVars, sessionVars, storeVars>>

\* The retry button of the error panel, rendered when not loading and error is set.
Retry ==
  /\ mounted
  /\ ~loading
  /\ error # NoError
  /\ fetchNews(activeTabId, tabs, DeleteEntry(newsCache, activeTabId), newsList,
               activeTabId \in DOMAIN newsCache)
  /\ UNCHANGED <<mounted, tabs, activeTabId, isSettingsOpen, editingTabs, now>>
  /\ UNCHANGED <<upstreamVars, sessionVars, storeVars>>

\* Every invocation that can be suspended: one per tab id, start kind and keyword.
Requests ==
  {Request(tabId, forcedOverEntry, keyword) :
     tabId \in TabIds, forcedOverEntry \in BOOLEAN, keyword \in Keywords}

\* The response of the suspended invocation req arrives.
Complete(req, resp) ==
  LET tabId == req.tabId
      mappedNews == Normalize(tabId, resp)
  IN
  /\ BagIn(req, inflight)
  /\ UNCHANGED <<mounted, tabs, activeTabId, isSettingsOpen, editingTabs, now>>
  /\ UNCHANGED <<upstreamVars, sessionVars, storeVars>>
  /\ loading' = FALSE
  /\ inflight' = inflight (-) SetToBag({req})
  /\ IF Succeeds(resp) THEN
       /\ newsCache' = StoreEntry(newsCache, tabId, mappedNews)
       /\ newsList' = mappedNews
       /\ error' = error
       /\ last' = "success"
     ELSE IF tabId \in DOMAIN newsCache THEN
       /\ newsList' = newsCache[tabId].data
       /\ error' = SoftError
       /\ newsCache' = newsCache
       /\ last' = "soft"
     ELSE
       /\ error' = HardError
       /\ newsList' = newsList
       /\ newsCache' = newsCache
       /\ last' = "hard"

-----------------------------------------------------------------------------
(* The settings editor *)

\* Variant of OpenSettings: the editor shows the working copy it was closed with.
OpenSettingsKeepDraft ==
  /\ mounted
  /\ ~isSettingsOpen
  /\ isSettingsOpen' = TRUE
  /\ UNCHANGED <<mounted, tabs, activeTabId, newsList, loading, error, newsCache,
                 editingTabs, now, inflight, last>>
  /\ UNCHANGED <<upstreamVars, sessionVars, storeVars>>

\* The settings button; the editor's effect copies the committed tabs and maximum.
OpenSettings ==
  /\ mounted
  /\ ~isSettingsOpen
  /\ isSettingsOpen' = TRUE
  /\ editingTabs' = tabs
  /\ editingMaxTabs' = maxTabs
  /\ typedMax' = NoInput
  /\ UNCHANGED <<mounted, tabs, activeTabId, newsList, loading, error, newsCache,
                 now, inflight, last>>
  /\ UNCHANGED <<upstreamVars, sessionVars, maxTabs, edits>>

\* The close button: onClose.
CloseSettings ==
  /\ isSettingsOpen
  /\ isSettingsOpen' = FALSE
  /\ UNCHANGED <<mounted, tabs, activeTabId, newsList, loading, error, newsCache,
                 editingTabs, now, inflight, last>>
  /\ UNCHANGED <<upstreamVars, sessionVars, storeVars>>

\* handleChange(index, 'keyword', value); index is 0-based in the code.
handleChangeKeyword(index, value) ==
  /\ isSettingsOpen
  /\ index \in 1..Len(editingTabs)
  /\ editingTabs[index].keyword # value
  /\ editingTabs' = [editingTabs EXCEPT ![index].keyword = value]
  /\ UNCHANGED <<mounted, tabs, activeTabId, newsList, loading, error, newsCache,
                 isSettingsOpen, now, inflight, last>>
  /\ UNCHANGED <<upstreamVars, sessionVars, storeVars>>

\* Variant of handleDeleteTab: the last remaining tab can be deleted too.
handleDeleteTabAny(index) ==
  /\ isSettingsOpen
  /\ index \in 1..Len(editingTabs)
  /\ editingTabs' = SubSeq(editingTabs, 1, index - 1)
                      \o SubSeq(editingTabs, index + 1, Len(editingTabs))
  /\ UNCHANGED <<mounted, tabs, activeTabId, newsList, loading, error, newsCache,
                 isSettingsOpen, now, inflight, last>>
  /\ UNCHANGED <<upstreamVars, sessionVars, storeVars>>

\* handleDeleteTab(index): rejected when one tab is left.
handleDeleteTab(index) ==
  /\ isSettingsOpen
  /\ index \in 1..Len(editingTabs)
  /\ Len(editingTabs) > 1
  /\ editingTabs' = SubSeq(editingTabs, 1, index - 1)
                      \o SubSeq(editingTabs, index + 1, Len(editingTabs))
  /\ UNCHANGED <<mounted, tabs, activeTabId, newsList, loading, error, newsCache,
                 isSettingsOpen, now, inflight, last>>
  /\ UNCHANGED <<upstreamVars, sessionVars, storeVars>>

\* The tab handleAddTab creates; its id is `tab-${Date.now()}`.
NewTab == [id |-> "tab-" \o ToString(now), keyword |-> "news"]

\* Variant of handleAddTab: the test is length > max.
handleAddTabOneMore ==
  /\ isSettingsOpen
  /\ Len(editingTabs) <= editingMaxTabs
  /\ edits < MaxEdits /\ edits' = edits + 1
  /\ editingTabs' = Append(editingTabs, NewTab)
  /\ UNCHANGED <<mounted, tabs, activeTabId, newsList, loading, error, newsCache,
                 isSettingsOpen, now, inflight, last>>
  /\ UNCHANGED <<upstreamVars, sessionVars, maxTabs, editingMaxTabs, typedMax>>

\* handleAddTab: returns when the working copy holds the maximum or more.
handleAddTab ==
  /\ isSettingsOpen
  /\ ~(Len(editingTabs) >= editingMaxTabs)
  /\ edits < MaxEdits /\ edits' = edits + 1
  /\ editingTabs' = Append(editingTabs, NewTab)
  /\ UNCHANGED <<mounted, tabs, activeTabId, newsList, loading, error, newsCache,
                 isSettingsOpen, now, inflight, last>>
  /\ UNCHANGED <<upstreamVars, sessionVars, maxTabs, editingMaxTabs, typedMax>>

\* Variant of Swap: the element at j is copied to i and stays at j.
SwapCopy(list, i, j) == [list EXCEPT ![i] = list[j]]

\* The list with the elements at positions i and j exchanged.
Swap(list, i, j) == [list EXCEPT ![i] = list[j], ![j] = list[i]]

\* The list moveTab leaves: the same list at the first position for 'up' and
\* at the last for 'down' (early return), else the row exchanged with its
\* neighbour.
MovedTabs(list, index, direction) ==
  IF (direction = "up" /\ index = 1) \/ (direction = "down" /\ index = Len(list))
    THEN list
    ELSE Swap(list, index, IF direction = "up" THEN index - 1 ELSE index + 1)

\* moveTab(index, direction) of the arrow buttons; index is 0-based in the code.
moveTab(index, direction) ==
  /\ isSettingsOpen
  /\ index \in 1..Len(editingTabs)
  /\ ~(direction = "up" /\ index = 1)
  /\ ~(direction = "down" /\ index = Len(editingTabs))
  /\ edits < MaxEdits /\ edits' = edits + 1
  /\ editingTabs' = MovedTabs(editingTabs, index, direction)
  /\ UNCHANGED <<mounted, tabs, activeTabId, newsList, loading, error, newsCache,
                 isSettingsOpen, now, inflight, last>>
  /\ UNCHANGED <<upstreamVars, sessionVars, maxTabs, editingMaxTabs, typedMax>>

\* splice(from, 1) then splice(to, 0, item): the element at from moves to to.
MoveTo(list, from, to) ==
  LET rest == SubSeq(list, 1, from - 1) \o SubSeq(list, from + 1, Len(list))
  IN SubSeq(rest, 1, to - 1) \o <<list[from]>> \o SubSeq(rest, to, Len(rest))

\* One drag of a row: handleDragStart(e, from) sets draggedIndex, handleDragOver(e, to)
\* moves the dragged row to the place of the row under it, handleDragEnd
\* clears draggedIndex.  A drag over several rows is a sequence of these.
handleDrag(from, to) ==
  /\ isSettingsOpen
  /\ from \in 1..Len(editingTabs)
  /\ to \in 1..Len(editingTabs)
  /\ from # to
  /\ edits < MaxEdits /\ edits' = edits + 1
  /\ editingTabs' = MoveTo(editingTabs, from, to)
  /\ UNCHANGED <<mounted, tabs, activeTabId, newsList, loading, error, newsCache,
                 isSettingsOpen, now, inflight, last>>
  /\ UNCHANGED <<upstreamVars, sessionVars, maxTabs, editingMaxTabs, typedMax>>

\* Numbers typed into the maximum field (parseInt of the input's value).
MaxTabsInputs == {0, 1, 20, 21}

\* Variant of handleMaxTabsInput: a number outside 1..20 is clamped into it.
handleMaxTabsInputClamped(val) ==
  /\ isSettingsOpen
  /\ edits < MaxEdits /\ edits' = edits + 1
  /\ typedMax' = val
  /\ editingMaxTabs' = IF val < 1 THEN 1 ELSE IF val > 20 THEN 20 ELSE val
  /\ UNCHANGED <<appVars, upstreamVars, sessionVars, maxTabs>>

\* onChange of the maximum field: only a number in 1..20 is taken.
handleMaxTabsInput(val) ==
  /\ isSettingsOpen
  /\ edits < MaxEdits /\ edits' = edits + 1
  /\ typedMax' = val
  /\ editingMaxTabs' = IF val >= 1 /\ val <= 20 THEN val ELSE editingMaxTabs
  /\ UNCHANGED <<appVars, upstreamVars, sessionVars, maxTabs>>

\* Variant of handleSave: only the entries of tabs whose keyword changed, or
\* that were removed, are dropped.
handleSaveKeepOthers ==
  /\ isSettingsOpen
  /\ tabs' = editingTabs
  /\ fetchNews(activeTabId, editingTabs,
               [t \in {u \in DOMAIN newsCache :
                         \E i \in 1..Len(tabs), j \in 1..Len(editingTabs) :
                            tabs[i].id = u /\ editingTabs[j] = tabs[i]} |-> newsCache[t]],
               <<>>, FALSE)
  /\ maxTabs' = editingMaxTabs
  /\ storage' = [storage EXCEPT !.tabs = StringifyTabs(editingTabs),
                                !.maxTabs = ToString(editingMaxTabs)]
  /\ isSettingsOpen' = FALSE
  /\ UNCHANGED <<mounted, activeTabId, editingTabs, now>>
  /\ UNCHANGED <<upstreamVars, readIds, hiddenSources, reloads, beforeReload, showHiddenArticles, editingMaxTabs, typedMax, edits>>

\* handleSave: onSave (handleSaveSettings of App) and onClose; the sync
\* effects of the render write the tabs and the maximum.
handleSave ==
  /\ isSettingsOpen
  /\ tabs' = editingTabs
  /\ fetchNews(activeTabId, editingTabs, EmptyCache, <<>>,
               FALSE)
  /\ maxTabs' = editingMaxTabs
  /\ storage' = [storage EXCEPT !.tabs = StringifyTabs(editingTabs),
                                !.maxTabs = ToString(editingMaxTabs)]
  /\ isSettingsOpen' = FALSE
  /\ UNCHANGED <<mounted, activeTabId, editingTabs, now>>
  /\ UNCHANGED <<upstreamVars, readIds, hiddenSources, reloads, beforeReload, showHiddenArticles, editingMaxTabs, typedMax, edits>>

-----------------------------------------------------------------------------
(* Read marks, hidden sources and the page reload *)

\* Variant of visibleNews: the hidden set does not filter.
visibleNewsUnfiltered == newsList

\* The articles that get a card.
visibleNews ==
  IF showHiddenArticles THEN newsList
  ELSE SelectSeq(newsList, LAMBDA article : article.source \notin hiddenSources)

\* The card of the article is on screen: the list branch is rendered and
\* the article is among the visible ones.  isHidden is the card's prop.
CardShown(article) ==
  /\ mounted /\ ~loading /\ error = NoError
  /\ \E i \in 1..Len(visibleNews) : visibleNews[i] = article
isHidden(article) == article.source \in hiddenSources

\* The cards of the list branch with their props, in render order.
Cards ==
  IF loading \/ error # NoError THEN <<>>
  ELSE [i \in 1..Len(visibleNews) |->
          [ article  |-> visibleNews[i],
            isRead   |-> visibleNews[i].id \in readIds,
            isHidden |-> isHidden(visibleNews[i]) ]]

\* Variant of markAsRead: the hidden set is emptied as well.
markAsReadAndUnhide(article) ==
  /\ CardShown(article) /\ ~isHidden(article)
  /\ readIds' = readIds \cup {article.id}
  /\ hiddenSources' = {}
  /\ storage' = [storage EXCEPT !.readIds = Stored(ArrayFrom(readIds')),
                                !.hiddenSources = Stored(ArrayFrom({}))]
  /\ UNCHANGED <<appVars, upstreamVars, storeVars, reloads, beforeReload, showHiddenArticles>>

\* A click on a card that is not hidden: markAsRead(article.id), then the
\* sync effect (the Set a functional update returns is a new object, so the
\* render and the effect follow even when the members are the same).
markAsRead(article) ==
  /\ CardShown(article) /\ ~isHidden(article)
  /\ readIds' = readIds \cup {article.id}
  /\ storage' = [storage EXCEPT !.readIds = Stored(ArrayFrom(readIds'))]
  /\ UNCHANGED <<appVars, upstreamVars, storeVars, hiddenSources, reloads, beforeReload, showHiddenArticles>>

\* The hide button of a card that is not hidden: hideSource(article.source),
\* then the sync effect.
hideSource(article) ==
  /\ CardShown(article) /\ ~isHidden(article)
  /\ hiddenSources' = hiddenSources \cup {article.source}
  /\ storage' = [storage EXCEPT !.hiddenSources = Stored(ArrayFrom(hiddenSources'))]
  /\ UNCHANGED <<appVars, upstreamVars, storeVars, readIds, reloads, beforeReload, showHiddenArticles>>

\* The show button of a hidden card: unhideSource(article.source), then the
\* sync effect.
unhideSource(article) ==
  /\ CardShown(article) /\ isHidden(article)
  /\ hiddenSources' = hiddenSources \ {article.source}
  /\ storage' = [storage EXCEPT !.hiddenSources = Stored(ArrayFrom(hiddenSources'))]
  /\ UNCHANGED <<appVars, upstreamVars, storeVars, readIds, reloads, beforeReload, showHiddenArticles>>

\* resetHiddenSources (the button is rendered while a source is hidden): removeItem, setHiddenSources(new Set()); the sync
\* effect of the render writes the empty array.
resetHiddenSources ==
  /\ mounted
  /\ hiddenSources # {}
  /\ hiddenSources' = {}
  /\ storage' = [storage EXCEPT !.hiddenSources = Stored(ArrayFrom({}))]
  /\ showHiddenArticles' = FALSE
  /\ UNCHANGED <<appVars, upstreamVars, storeVars, readIds, reloads, beforeReload>>

\* The show-hidden button (rendered while a source is hidden):
\* setShowHiddenArticles(prev => !prev).
toggleShowHidden ==
  /\ mounted
  /\ hiddenSources # {}
  /\ showHiddenArticles' = ~showHiddenArticles
  /\ UNCHANGED <<appVars, upstreamVars, storeVars, readIds, hiddenSources, storage, reloads, beforeReload>>

\* The page is loaded again: every useState initialiser runs, the requests
\* of the old page are gone, local storage and the clock are what they were.
Reload ==
  /\ mounted
  /\ reloads < MaxReloads
  /\ reloads' = reloads + 1
  /\ beforeReload' = Persisted(tabs, maxTabs, readIds, hiddenSources)
  /\ showHiddenArticles' = FALSE
  /\ mounted' = FALSE
  /\ tabs' = ParseTabs(storage.tabs)
  /\ activeTabId' = tabs'[1].id
  /\ newsList' = <<>>
  /\ loading' = TRUE
  /\ error' = NoError
  /\ newsCache' = EmptyCache
  /\ isSettingsOpen' = FALSE
  /\ readIds' = {}
  /\ hiddenSources' = {}
  /\ maxTabs' = LoadMaxTabs(storage.maxTabs)
  /\ editingTabs' = tabs'
  /\ editingMaxTabs' = maxTabs'
  /\ typedMax' = NoInput
  /\ inflight' = EmptyBag
  /\ last' = "none"
  /\ UNCHANGED <<now, upstreamVars, storage, edits>>

-----------------------------------------------------------------------------

Next ==
  \/ Mount
  \/ Tick
  \/ \E tabId \in TabIds : SwitchTab(tabId)
  \/ Refresh
  \/ Retry
  \/ \E req \in Requests, resp \in Responses : Complete(req, resp)
  \/ OpenSettings
  \/ CloseSettings
  \/ \E index \in 1..Len(SavedTabs), value \in KeywordInputs : handleChangeKeyword(index, value)
  \/ \E index \in 1..Len(SavedTabs) : handleDeleteTab(index)
  \/ handleSave

Spec == Init /\ [][Next]_vars

-----------------------------------------------------------------------------
(* The settings editor with all its operations *)

\* Date.now() advances once while the editor is in use.
TickOnce == now = 0 /\ Tick

\* What the API answers in the editor's runs: a feed of one item, or a failure.
EditorResponses ==
  { [ok |-> TRUE,  status |-> "ok",    feedTitle |-> FeedTitle, items |-> <<ItemMid>>],
    [ok |-> FALSE, status |-> "error", feedTitle |-> FeedTitle, items |-> <<>>] }

\* The dashboard stays on its first tab; every operation of the editor is
\* available, and the fetches that mount and save start are answered.
NextEditor ==
  \/ Mount
  \/ TickOnce
  \/ \E req \in Requests, resp \in EditorResponses : Complete(req, resp)
  \/ OpenSettings
  \/ CloseSettings
  \/ \E index \in 1..Len(editingTabs), value \in KeywordInputs : handleChangeKeyword(index, value)
  \/ handleAddTab
  \/ \E index \in 1..Len(editingTabs) : handleDeleteTab(index)
  \/ \E index \in 1..Len(editingTabs), direction \in {"up", "down"} : moveTab(index, direction)
  \/ \E from \in 1..Len(editingTabs), to \in 1..Len(editingTabs) : handleDrag(from, to)
  \/ \E val \in MaxTabsInputs : handleMaxTabsInput(val)
  \/ handleSave

SpecEditor == Init /\ [][NextEditor]_vars

-----------------------------------------------------------------------------
(* A session with read marks, hidden sources, settings saves and a reload *)

NextSession ==
  \/ Mount
  \/ \E req \in Requests, resp \in EditorResponses : Complete(req, resp)
  \/ \E i \in 1..Len(newsList) : markAsRead(newsList[i])
  \/ \E i \in 1..Len(newsList) : hideSource(newsList[i])
  \/ \E i \in 1..Len(newsList) : unhideSource(newsList[i])
  \/ resetHiddenSources
  \/ toggleShowHidden
  \/ OpenSettings
  \/ CloseSettings
  \/ \E index \in 1..Len(editingTabs), value \in KeywordInputs : handleChangeKeyword(index, value)
  \/ \E index \in 1..Len(editingTabs) : handleDeleteTab(index)
  \/ \E val \in MaxTabsInputs : handleMaxTabsInput(val)
  \/ handleSave
  \/ Reload

SpecSession == Init /\ [][NextSession]_vars

-----------------------------------------------------------------------------
(* The article list with read marks and hidden sources *)

\* A feed of three articles from two sources, and a failure.
ViewResponses ==
  { [ok |-> TRUE,  status |-> "ok",    feedTitle |-> FeedTitle, items |-> <<ItemOld, ItemNew, ItemMid>>],
    [ok |-> FALSE, status |-> "error", feedTitle |-> FeedTitle, items |-> <<>>] }

NextView ==
  \/ Mount
  \/ \E req \in Requests, resp \in ViewResponses : Complete(req, resp)
  \/ \E tabId \in TabIds : SwitchTab(tabId)
  \/ \E i \in 1..Len(newsList) : markAsRead(newsList[i])
  \/ \E i \in 1..Len(newsList) : hideSource(newsList[i])
  \/ \E i \in 1..Len(newsList) : unhideSource(newsList[i])
  \/ resetHiddenSources
  \/ toggleShowHidden

SpecView == Init /\ [][NextView]_vars

-----------------------------------------------------------------------------
(* The fetch pipeline over every upstream feed *)

\* The first request of a session answers with the items of an arbitrary feed.
InitPipeline ==
  /\ mounted = FALSE
  /\ tabs = SavedTabs
  /\ activeTabId = SavedTabs[1].id
  /\ newsList = <<>>
  /\ loading = TRUE
  /\ error = NoError
  /\ newsCache = EmptyCache
  /\ isSettingsOpen = FALSE
  /\ editingTabs = SavedTabs
  /\ now = 0
  /\ inflight = EmptyBag
  /\ last = "none"
  /\ feed \in Feeds
  /\ feedTitle = FeedTitle
  /\ maxTabs = SavedMaxTabs
  /\ editingMaxTabs = SavedMaxTabs
  /\ typedMax = NoInput
  /\ edits = 0
  /\ readIds = {}
  /\ hiddenSources = {}
  /\ storage = SavedStorage
  /\ reloads = 0
  /\ beforeReload = Persisted(SavedTabs, SavedMaxTabs, {}, {})
  /\ showHiddenArticles = FALSE

\* The API answers the suspended invocation with the feed's items.
CompleteFeed ==
  \E req \in Requests : Complete(req, [ok |-> TRUE, status |-> "ok", feedTitle |-> feedTitle, items |-> feed])

NextPipeline ==
  \/ Mount
  \/ CompleteFeed

SpecPipeline == InitPipeline /\ [][NextPipeline]_vars

-----------------------------------------------------------------------------
(* The map callback over single upstream items *)

\* Titles: every text of at most MaxTitleLen tokens over a word, the blank
\* and the hyphen.
Titles == UNION {[1..n -> {"a", " ", "-"}] : n \in 0..MaxTitleLen}

\* item.author and data.feed.title: missing, a name, a name in blanks.
Authors == {<<>>, <<"Au">>, <<" ", "Au", " ">>}
FeedTitles == {<<>>, <<"Feed">>}

\* Markup without an img, with an img after a paragraph, with an img that
\* has no src before one that has, with an img whose src is empty.
Markups(src) ==
  { <<>>, <<Para>>, <<Para, Img(src)>>, <<Img(Null), Img(src)>>, <<Img("")>> }

\* Items that differ in title and author.
TitleItems ==
  [ guid : {"guid-a"}, title : Titles, pubDate : {"2024-01-02 09:00:00"},
    author : Authors, thumbnail : {""}, enclosureLink : {""},
    description : {<<>>}, content : {<<>>} ]

\* Items that differ in the four image sources.
ImageItems ==
  [ guid : {"guid-a"}, title : {<<"a", " ", "b">>}, pubDate : {"2024-01-02 09:00:00"},
    author : {<<>>}, thumbnail : {"", "thumb.png"}, enclosureLink : {"", "encl.png"},
    description : Markups("desc.png"), content : Markups("cont.png") ]

\* The session starts with a feed of one item.
InitItem ==
  /\ mounted = FALSE
  /\ tabs = SavedTabs
  /\ activeTabId = tabs[1].id
  /\ newsList = <<>>
  /\ loading = TRUE
  /\ error = NoError
  /\ newsCache = EmptyCache
  /\ isSettingsOpen = FALSE
  /\ editingTabs = tabs
  /\ now = 0
  /\ inflight = EmptyBag
  /\ last = "none"
  /\ feed \in {<<item>> : item \in TitleItems \cup ImageItems}
  /\ feedTitle \in FeedTitles
  /\ maxTabs = SavedMaxTabs
  /\ editingMaxTabs = SavedMaxTabs
  /\ typedMax = NoInput
  /\ edits = 0
  /\ readIds = {}
  /\ hiddenSources = {}
  /\ storage = SavedStorage
  /\ reloads = 0
  /\ beforeReload = Persisted(SavedTabs, SavedMaxTabs, {}, {})
  /\ showHiddenArticles = FALSE

SpecItem == InitItem /\ [][NextPipeline]_vars

-----------------------------------------------------------------------------
(* What App renders *)

\* loading ? spinner : error ? error panel (message and retry button) : list
View == IF loading THEN "spinner" ELSE IF error # NoError THEN "error" ELSE "list"

\* The cards on screen: the list is rendered only in the third branch.
DisplayedArticles == IF View = "list" THEN newsList ELSE <<>>

\* The error message is rendered in the error panel.
MessageShown == IF View = "error" THEN error ELSE NoError

\* The retry button is part of the error panel.
RetryShown == View = "error"

-----------------------------------------------------------------------------
(* Claims *)

\* The step takes a suspended invocation out of flight: a response arrives.
ArrivalStep == ~loading' /\ inflight' # inflight

\* The step is the arrival of resp for the suspended invocation req.
Completes(req, resp) == ArrivalStep /\ Complete(req, resp)

\* Number of fetches in flight for a tab id.
InFlightFor(tabId) ==
  BagCardinality([req \in {r \in BagToSet(inflight) : r.tabId = tabId} |-> inflight[req]])

\* The step adds one suspended invocation for tabId and keeps the others.
Issues(tabId) ==
  \E req \in Requests : req.tabId = tabId /\ inflight' = inflight (+) SetToBag({req})

\* C1: a non-forced fetch for tab t (the tab-switch effect, the mount effect)
\* issues a network request if and only if t has no cache entry younger than
\* 5 minutes; with such an entry it shows exactly the entry's articles, issues
\* no request and leaves the cache as it was.
C1_NonForcedFetchUsesFreshEntry ==
  [][ /\ \A t \in TabIds :
           SwitchTab(t) =>
             IF t \in DOMAIN newsCache /\ now - newsCache[t].timestamp < 300000
               THEN /\ newsList' = newsCache[t].data
                    /\ inflight' = inflight
                    /\ newsCache' = newsCache
                    /\ ~loading'
               ELSE /\ Issues(t)
                    /\ newsCache' = newsCache
      /\ Mount => Issues(activeTabId)
    ]_vars

\* A cache hit on an entry stored at an earlier clock value, so inside the
\* window but not at its start.
C1_Witness ==
  /\ last = "hit"
  /\ activeTabId \in DOMAIN newsCache
  /\ newsCache[activeTabId].timestamp < now
  /\ newsList = newsCache[activeTabId].data
  /\ newsList # <<>>

\* C2: a forced refresh (the refresh button, the retry button) of the active
\* tab issues a network request whatever the age of the tab's cache entry:
\* also when the entry is fresh.
C2_ForcedRefreshIssuesRequest ==
  [][ (Refresh \/ Retry) /\ activeTabId \in TabIdsOf(tabs) => Issues(activeTabId) ]_vars

\* A request started by a forced refresh over an entry, at the clock value at
\* which every entry is still fresh.
C2_Witness ==
  /\ now = 0
  /\ last = "request"
  /\ \E req \in BagToSet(inflight) : req.tabId = activeTabId /\ req.forcedOverEntry

\* C3 (as claimed): when the request of a fetch for tab t fails, the article
\* list equals the entry's articles and the soft error is set if t has an
\* entry, and the article list is empty and the hard error is set if not.
C3_FailureFallback ==
  [][ \A req \in BagToSet(inflight), resp \in Responses :
        ~(resp.ok /\ resp.status = "ok") /\ Completes(req, resp) =>
          IF req.tabId \in DOMAIN newsCache
            THEN newsList' = newsCache[req.tabId].data /\ error' = SoftError
            ELSE newsList' = <<>> /\ error' = HardError
    ]_vars

\* C4 (as claimed): a forced refresh only skips the cache check, so when it
\* was requested for a tab that had a cache entry and the request fails, the
\* fetch falls back to the entry's articles with the soft error.
C4_ForcedRefreshFallsBack ==
  [][ \A req \in BagToSet(inflight), resp \in Responses :
        ( /\ ~(resp.ok /\ resp.status = "ok")
          /\ req.forcedOverEntry
          /\ Completes(req, resp) ) =>
          /\ error' = SoftError
          /\ req.tabId \in DOMAIN newsCache
          /\ newsList' = newsCache[req.tabId].data
    ]_vars

\* C4 (amended): a forced refresh deletes the active tab's entry, and only
\* that entry, before it fetches; when its request fails and no other fetch
\* has stored an entry for the tab in the meantime, the result is the hard
\* error with the article list left as it was.
C4_ForcedRefreshDeletesEntry ==
  [][ /\ (Refresh \/ Retry) =>
           /\ activeTabId \notin DOMAIN newsCache'
           /\ DOMAIN newsCache' = DOMAIN newsCache \ {activeTabId}
           /\ \A t \in DOMAIN newsCache' : newsCache'[t] = newsCache[t]
      /\ \A req \in BagToSet(inflight), resp \in Responses :
           ( /\ ~(resp.ok /\ resp.status = "ok")
             /\ req.forcedOverEntry
             /\ req.tabId \notin DOMAIN newsCache
             /\ Completes(req, resp) ) =>
               error' = HardError /\ newsList' = newsList
    ]_vars

\* The hard error for the active tab while the list still holds that tab's
\* articles: they came from an entry that the forced refresh deleted.
C4_Witness ==
  /\ last = "hard"
  /\ error = HardError
  /\ activeTabId \notin DOMAIN newsCache
  /\ newsList # <<>>
  /\ newsList[1].category = activeTabId

\* The save changes the keyword of exactly one tab and nothing else.
OneKeywordChanged ==
  /\ Len(editingTabs) = Len(tabs)
  /\ \A i \in 1..Len(tabs) : editingTabs[i].id = tabs[i].id
  /\ Cardinality({i \in 1..Len(tabs) : editingTabs[i].keyword # tabs[i].keyword}) = 1

\* C5 (as claimed): a save in which only one tab's keyword was changed
\* removes exactly that tab's cache entry and leaves every other tab's entry
\* as it was.
C5_SaveInvalidatesOnlyChangedTab ==
  [][ handleSave /\ OneKeywordChanged =>
        \A i \in 1..Len(tabs) :
          IF editingTabs[i].keyword # tabs[i].keyword
            THEN tabs[i].id \notin DOMAIN newsCache'
            ELSE /\ (tabs[i].id \in DOMAIN newsCache') = (tabs[i].id \in DOMAIN newsCache)
                 /\ tabs[i].id \in DOMAIN newsCache /\ tabs[i].id \in DOMAIN newsCache' =>
                      newsCache'[tabs[i].id] = newsCache[tabs[i].id]
    ]_vars

\* C5 (amended): a save removes the cache entry of every tab, whatever was
\* changed in the editor.
C5_SaveClearsCache ==
  [][ handleSave => DOMAIN newsCache' = {} ]_vars

\* Right after a save that changed only the first tab's keyword: the cache is
\* empty, the list is cleared and the active tab is being fetched again.
C5_Witness ==
  /\ last = "request"
  /\ ~isSettingsOpen
  /\ editingTabs = tabs
  /\ Len(tabs) = 2
  /\ tabs[1].id = SavedTabs[1].id /\ tabs[1].keyword # SavedTabs[1].keyword
  /\ tabs[2] = SavedTabs[2]
  /\ DOMAIN newsCache = {}
  /\ newsList = <<>>
  /\ BagCardinality(inflight) = 1

\* The cache after the entry of tabId was overwritten with the normalised
\* items of resp at the current clock value, every other entry kept.
Overwritten(tabId, resp) ==
  [t \in DOMAIN newsCache \cup {tabId} |->
     IF t = tabId THEN [data |-> Normalize(tabId, resp), timestamp |-> now]
     ELSE newsCache[t]]

\* C6: the cache is written only by the successful completion of a network
\* fetch, which overwrites the entry of its tab with the new list and the
\* current timestamp and changes no other entry; a failed fetch, a cache hit
\* and a fetch for an unknown tab id create, modify and delete no entry (for
\* an unknown id the cache is what the calling handler made of it: emptied by
\* a save, the active id's entry deleted by a forced refresh).
C6_CacheWrittenOnlyBySuccess ==
  [][ /\ ArrivalStep =>
           \A req \in BagToSet(inflight), resp \in Responses :
              Completes(req, resp) =>
                IF Succeeds(resp)
                  THEN newsCache' = Overwritten(req.tabId, resp)
                  ELSE newsCache' = newsCache
      /\ newsCache' # newsCache => ~Mount /\ \A t \in TabIds : ~SwitchTab(t)
      /\ activeTabId \notin TabIdsOf(tabs) /\ (Refresh \/ Retry) =>
           newsCache' = [t \in DOMAIN newsCache \ {activeTabId} |-> newsCache[t]]
      /\ activeTabId \notin TabIdsOf(editingTabs) /\ handleSave => DOMAIN newsCache' = {}
      /\ \A t \in DOMAIN newsCache' :
           (t \notin DOMAIN newsCache \/ newsCache'[t] # newsCache[t]) =>
              \E req \in BagToSet(inflight), resp \in Responses :
                 req.tabId = t /\ Succeeds(resp) /\ Completes(req, resp)
    ]_vars

\* A success has just overwritten one tab's entry while the other tab's
\* entry, stored at an earlier clock value, is still there.
C6_Witness ==
  /\ last = "success"
  /\ DOMAIN newsCache = TabIds
  /\ \E t \in TabIds :
       /\ newsCache[t].timestamp = now
       /\ newsCache[t].data = newsList
       /\ \A u \in TabIds \ {t} : newsCache[u].timestamp < now

\* C7: when fetches for the same tab id overlap, or the result arrives after
\* the user switched to another tab, or an earlier fetch has already stored
\* an entry for the tab, each successful completion still overwrites the
\* entry of the tab it was fetched for, and no other entry, so the entry
\* holds the result of the fetch that completed last.
C7_LastWriterWins ==
  [][ ArrivalStep =>
        \A req \in BagToSet(inflight), resp \in Responses :
          ( /\ Succeeds(resp)
            /\ \/ req.tabId # activeTabId
               \/ InFlightFor(req.tabId) >= 2
               \/ req.tabId \in DOMAIN newsCache
            /\ Completes(req, resp) ) =>
              /\ req.tabId \in DOMAIN newsCache'
              /\ newsCache'[req.tabId] =
                   [data |-> Normalize(req.tabId, resp), timestamp |-> now]
              /\ \A u \in DOMAIN newsCache \ {req.tabId} :
                   u \in DOMAIN newsCache' /\ newsCache'[u] = newsCache[u]
              /\ DOMAIN newsCache' = DOMAIN newsCache \cup {req.tabId}
    ]_vars

\* A result has just arrived for a tab the user has left, while another fetch
\* for that same tab is still in flight: the entry holds the arrived result.
C7_Witness ==
  /\ last = "success"
  /\ newsList # <<>>
  /\ newsList[1].category # activeTabId
  /\ newsList[1].category \in DOMAIN newsCache
  /\ newsCache[newsList[1].category] = [data |-> newsList, timestamp |-> now]
  /\ InFlightFor(newsList[1].category) >= 1

\* C8 (as claimed): at most one network fetch is in flight for any tab id.
C8_AtMostOneInFlightPerTab ==
  \A t \in TabIds : InFlightFor(t) <= 1

\* C8 (amended): several fetches can be in flight for one tab id.  The
\* forced-refresh and retry controls start a fetch only while the loading
\* flag is false; while it is true, a further fetch for a tab that already
\* has one in flight is started only by a switch to that tab or by a save.
C8_DuplicateFetchOnlyBySwitchOrSave ==
  [][ /\ (Refresh \/ Retry) => ~loading
      /\ \A t \in TabIds :
           (loading /\ InFlightFor(t) >= 1 /\ InFlightFor(t)' > InFlightFor(t)) =>
              \/ activeTabId' = t /\ activeTabId # t
              \/ isSettingsOpen /\ ~isSettingsOpen' /\ tabs' = editingTabs
    ]_vars

\* Two fetches in flight for the active tab, the second just started.
C8_Witness ==
  /\ last = "request"
  /\ loading
  /\ InFlightFor(activeTabId) = 2

\* C9 (as claimed, its safety part): every fetch invocation ends with the
\* loading flag false and either an article list or an error message: a
\* cache hit with the entry's articles, a success with the fetched articles,
\* a failure with an error message, an unknown tab id with a non-empty list
\* or an error message.
C9_EveryFetchEndsWithListOrMessage ==
  [][ /\ \A req \in BagToSet(inflight), resp \in Responses :
           Completes(req, resp) =>
             /\ ~loading'
             /\ IF Succeeds(resp)
                  THEN newsList' = Normalize(req.tabId, resp)
                  ELSE error' # NoError
      /\ \A t \in TabIds :
           (t \in DOMAIN newsCache /\ now - newsCache[t].timestamp < 300000 /\ SwitchTab(t)) =>
              ~loading' /\ newsList' = newsCache[t].data
      /\ ( \/ handleSave /\ activeTabId \notin TabIdsOf(editingTabs)
           \/ (Refresh \/ Retry) /\ activeTabId \notin TabIdsOf(tabs) ) =>
              ~loading' /\ (newsList' # <<>> \/ error' # NoError)
    ]_vars

\* C10 (as claimed): after a soft failure the cached articles are on screen
\* together with the warning; the retry control is on screen only after a
\* hard failure.
C10_SoftFailureShowsArticles ==
  /\ (~loading /\ error = SoftError) =>
        /\ DisplayedArticles = newsList
        /\ MessageShown = SoftError
  /\ RetryShown => error = HardError

-----------------------------------------------------------------------------
(* Claims about the fetch pipeline, over every feed of SpecPipeline *)

\* The upstream items as the map callback turns them into articles, in
\* upstream order.
Mapped == MapItems(activeTabId, [feedTitle |-> feedTitle, items |-> feed])

\* The articles of s published at d, in the order they have in s.
OfDate(s, d) ==
  LET PublishedAt(a) == a.pubDate = d IN SelectSeq(s, PublishedAt)

IsPrefix(a, b) == Len(a) <= Len(b) /\ a = SubSeq(b, 1, Len(a))

\* The articles of s with the number of times each occurs.
SeqToBag(s) ==
  [a \in {s[i] : i \in 1..Len(s)} |-> Cardinality({i \in 1..Len(s) : s[i] = a})]

\* C11: the article list a successful fetch produces is non-increasing in
\* pubDate, and the articles of one pubDate are in the order they had
\* upstream.
C11_SortedAndStable ==
  last = "success" =>
    /\ \A i, j \in 1..Len(newsList) : i < j => newsList[i].pubDate >= newsList[j].pubDate
    /\ \A k \in 1..Len(Mapped) :
         IsPrefix(OfDate(newsList, Mapped[k].pubDate), OfDate(Mapped, Mapped[k].pubDate))

\* A fetched list that is not in upstream order and holds two different
\* articles of one date.
C11_Witness ==
  /\ last = "success"
  /\ Len(newsList) = Len(feed)
  /\ newsList # Mapped
  /\ \E i, j \in 1..Len(newsList) :
       i < j /\ newsList[i].pubDate = newsList[j].pubDate /\ newsList[i] # newsList[j]

\* C12: from a feed of more than 12 items a successful fetch produces exactly
\* 12 articles and no article left out is more recent than one that is in
\* the list; from a feed of 12 items or fewer it produces all of them.
C12_TruncationAfterSort ==
  last = "success" =>
    IF Len(feed) > 12
      THEN /\ Len(newsList) = 12
           /\ SeqToBag(newsList) \sqsubseteq SeqToBag(Mapped)
           /\ \A a \in BagToSet(SeqToBag(Mapped) (-) SeqToBag(newsList)) :
                \A i \in 1..Len(newsList) : newsList[i].pubDate >= a.pubDate
      ELSE /\ Len(newsList) = Len(feed)
           /\ SeqToBag(newsList) = SeqToBag(Mapped)

\* The most recent article of a long feed was upstream behind the first 12
\* items and heads the fetched list.
C12_Witness ==
  /\ last = "success"
  /\ Len(feed) > 12
  /\ Len(newsList) = 12
  /\ newsList[1] = Mapped[Len(feed)]
  /\ \A k \in 1..12 : Mapped[k].pubDate < newsList[1].pubDate

\* C13 (as claimed): no two articles of a fetched list have the same id.
C13_FetchedIdsDistinct ==
  last = "success" =>
    \A i, j \in 1..Len(newsList) : i # j => newsList[i].id # newsList[j].id

-----------------------------------------------------------------------------
(* Claims about the tab store and its editor, over SpecEditor *)

\* C14: while the working copy holds the maximum number of tabs or more, no
\* operation of the editor makes it longer or puts a new tab id into it.
C14_AddAtMaxRejected ==
  [][ (isSettingsOpen /\ isSettingsOpen' /\ Len(editingTabs) >= editingMaxTabs) =>
        /\ Len(editingTabs') <= Len(editingTabs)
        /\ TabIdsOf(editingTabs') \subseteq TabIdsOf(editingTabs)
    ]_vars

\* Tabs were added until the working copy reached the maximum.
C14_Witness ==
  /\ isSettingsOpen
  /\ edits >= 1
  /\ Len(editingTabs) = editingMaxTabs
  /\ Len(editingTabs) > Len(tabs)
  /\ editingTabs[Len(editingTabs)].keyword = NewTab.keyword

\* C15: the working copy and the committed tab list hold at least one tab in
\* every reachable state.
C15_AtLeastOneTab ==
  Len(tabs) >= 1 /\ Len(editingTabs) >= 1

\* A single tab is committed after deleting down to one tab and saving, and
\* the editor is open on it again.
C15_Witness ==
  /\ isSettingsOpen
  /\ Len(tabs) = 1
  /\ Len(editingTabs) = 1
  /\ tabs # SubSeq(SavedTabs, 1, 1)

\* C16 (as claimed): the committed tab list never holds more tabs than the
\* committed maximum.
C16_TabsWithinMaximum ==
  Len(tabs) <= maxTabs

\* The value the claim says a typed number sets the maximum to.
Clamp(val) == IF val < 1 THEN 1 ELSE IF val > 20 THEN 20 ELSE val

\* C17 (as claimed): after a number was typed into the maximum field, the
\* working maximum is that number clamped to 1..20.
C17_MaximumClamped ==
  (isSettingsOpen /\ typedMax # NoInput) => editingMaxTabs = Clamp(typedMax)

\* C17 (amended): a typed number in 1..20 becomes the working maximum, a
\* typed number outside 1..20 leaves it as it was, and the working and the
\* committed maximum are in 1..20 in every reachable state.
C17_OutOfRangeIgnored ==
  /\ [](maxTabs \in 1..20 /\ editingMaxTabs \in 1..20)
  /\ [][ typedMax' # typedMax /\ typedMax' # NoInput =>
            editingMaxTabs' = IF typedMax' \in 1..20 THEN typedMax' ELSE editingMaxTabs
       ]_vars

\* 21 was typed and the working maximum is still the one the editor opened with.
C17_Witness ==
  /\ isSettingsOpen
  /\ typedMax = 21
  /\ editingMaxTabs = maxTabs
  /\ maxTabs = SavedMaxTabs

\* C18 (as claimed): no two tabs of the working copy, and no two of the
\* committed list, have the same id.
C18_TabIdsUnique ==
  /\ \A i, j \in 1..Len(editingTabs) : i # j => editingTabs[i].id # editingTabs[j].id
  /\ \A i, j \in 1..Len(tabs) : i # j => tabs[i].id # tabs[j].id

\* C19: a step that changes the working copy while the editor is open, and
\* the step that closes the editor without saving, leave the committed tab
\* list, the committed maximum and the article cache as they were; opening
\* the editor starts the working copy from the committed tab list and maximum.
C19_EditsAreStaged ==
  [][ /\ ( /\ isSettingsOpen /\ isSettingsOpen'
            /\ (editingTabs' # editingTabs \/ editingMaxTabs' # editingMaxTabs) ) =>
              tabs' = tabs /\ maxTabs' = maxTabs /\ newsCache' = newsCache
      /\ CloseSettings =>
              tabs' = tabs /\ maxTabs' = maxTabs /\ newsCache' = newsCache
      /\ (~isSettingsOpen /\ isSettingsOpen') =>
              editingTabs' = tabs /\ editingMaxTabs' = maxTabs
    ]_vars

\* The editor was opened again after it was closed with unsaved edits: the
\* working copy is the committed state, which is still the saved one, and
\* the cache still holds the entry fetched before.
C19_Witness ==
  /\ isSettingsOpen
  /\ edits = MaxEdits
  /\ typedMax = NoInput
  /\ editingTabs = tabs /\ tabs = SavedTabs
  /\ editingMaxTabs = maxTabs /\ maxTabs = SavedMaxTabs
  /\ DOMAIN newsCache # {}

-----------------------------------------------------------------------------
(* Claims about persistence *)

\* C20: when the application has started again after a reload, the read set,
\* the hidden-source set, the tab list and the maximum tab count in memory
\* are the ones that were in memory just before the reload.
C20_StateSurvivesReload ==
  [][ (Mount /\ reloads >= 1) =>
        Persisted(tabs', maxTabs', readIds', hiddenSources') = beforeReload ]_vars

\* The application has started again after a reload that followed a
\* mark-read, a hide and a save that changed the tabs and the maximum.
C20_Witness ==
  /\ mounted /\ reloads >= 1
  /\ readIds # {} /\ hiddenSources # {}
  /\ tabs # SavedTabs /\ maxTabs # SavedMaxTabs
  /\ Persisted(tabs, maxTabs, readIds, hiddenSources) = beforeReload

-----------------------------------------------------------------------------
(* Claims about read marks and hidden sources *)

\* C21: the read set only grows, by the id of the clicked article; the hidden
\* set changes by adding one name, removing one name, or being emptied with
\* the show-hidden mode turned off; marking an article that is already read
\* changes nothing; and a step that changes one of the two sets changes
\* neither the other set, nor the tab list, nor the cache.
C21_SetSemantics ==
  [][ /\ readIds \subseteq readIds'
      /\ \A i \in 1..Len(newsList) :
           /\ markAsRead(newsList[i]) => readIds' = readIds \cup {newsList[i].id}
           /\ (markAsRead(newsList[i]) /\ newsList[i].id \in readIds) => readIds' = readIds
           /\ hideSource(newsList[i]) => hiddenSources' = hiddenSources \cup {newsList[i].source}
           /\ unhideSource(newsList[i]) => hiddenSources' = hiddenSources \ {newsList[i].source}
      /\ resetHiddenSources => hiddenSources' = {} /\ ~showHiddenArticles'
      /\ readIds' # readIds =>
           hiddenSources' = hiddenSources /\ tabs' = tabs /\ newsCache' = newsCache
      /\ hiddenSources' # hiddenSources =>
           /\ readIds' = readIds /\ tabs' = tabs /\ newsCache' = newsCache
           /\ \/ \E n \in hiddenSources' : hiddenSources' = hiddenSources \cup {n}
              \/ \E n \in hiddenSources : hiddenSources' = hiddenSources \ {n}
              \/ hiddenSources' = {} /\ ~showHiddenArticles'
    ]_vars

\* An article on screen is read and can be clicked again, another source is
\* hidden, and the cache holds the list.
C21_Witness ==
  /\ readIds # {} /\ hiddenSources # {}
  /\ activeTabId \in DOMAIN newsCache
  /\ \E i \in 1..Len(newsList) : CardShown(newsList[i]) /\ ~isHidden(newsList[i])
                                  /\ newsList[i].id \in readIds

\* a is b with some elements left out, the rest in b's order.
IsSubsequence(a, b) ==
  \E f \in [1..Len(a) -> 1..Len(b)] :
    /\ \A i \in 1..Len(a) : a[i] = b[f[i]]
    /\ \A i, j \in 1..Len(a) : i < j => f[i] < f[j]

\* C22: in the default view no card shows an article of a hidden source; in
\* show-hidden mode every article of the fetched list has a card, and the
\* card is marked hidden exactly when the source is hidden; in both modes
\* the cards are in the order of the fetched list.
C22_HiddenSourcesFiltered ==
  LET shown == [i \in 1..Len(Cards) |-> Cards[i].article] IN
  /\ ~showHiddenArticles => \A i \in 1..Len(Cards) : Cards[i].article.source \notin hiddenSources
  /\ (showHiddenArticles /\ ~loading /\ error = NoError) =>
       /\ shown = newsList
       /\ \A i \in 1..Len(Cards) : Cards[i].isHidden <=> (newsList[i].source \in hiddenSources)
  /\ IsSubsequence(shown, newsList)

\* Default view with a hidden source: the fetched list has three articles
\* and fewer cards are on screen.
C22_Witness ==
  /\ ~showHiddenArticles
  /\ Len(newsList) = 3
  /\ hiddenSources # {}
  /\ Len(Cards) \in 1..2

-----------------------------------------------------------------------------
(* Claims about the map callback *)

\* The src of the first img element of the markup; Null without an img.
FirstImgSrc(markup) ==
  IF \A i \in 1..Len(markup) : markup[i].tag # "img" THEN Null
  ELSE LET i == CHOOSE i \in 1..Len(markup) :
                  /\ markup[i].tag = "img"
                  /\ \A j \in 1..(i - 1) : markup[j].tag # "img"
       IN markup[i].src

\* C23: the image address of the article is the thumbnail if the item has
\* one, else the enclosure link if it has one, else the src of the first img
\* of the description if there is one, else the src of the first img of the
\* content if there is one, else the placeholder seeded by the item's title;
\* it is never empty and is determined by the item alone.
C23_ImageFallbackOrder ==
  last = "success" =>
    LET item == feed[1]
        url == newsList[1].imageUrl
    IN /\ url # "" /\ url # Null
       /\ url = CASE item.thumbnail # "" -> item.thumbnail
                  [] item.thumbnail = "" /\ item.enclosureLink # "" -> item.enclosureLink
                  [] item.thumbnail = "" /\ item.enclosureLink = ""
                     /\ FirstImgSrc(item.description) \notin {Null, ""} -> FirstImgSrc(item.description)
                  [] item.thumbnail = "" /\ item.enclosureLink = ""
                     /\ FirstImgSrc(item.description) \in {Null, ""}
                     /\ FirstImgSrc(item.content) \notin {Null, ""} -> FirstImgSrc(item.content)
                  [] OTHER -> Placeholder(item)

\* An item whose only image is an img in the content, the description having
\* markup without a usable img: the article has the content img's src.
C23_Witness ==
  /\ last = "success"
  /\ feed[1].thumbnail = "" /\ feed[1].enclosureLink = ""
  /\ feed[1].description = <<Img("")>>
  /\ feed[1].content = <<Para, Img("cont.png")>>
  /\ newsList[1].imageUrl = "cont.png"

\* The position of the last occurrence of ' - ' in the text.
LastSepAt(text) ==
  CHOOSE i \in 1..Len(text) : SepAt(text, i) /\ \A j \in (i + 1)..Len(text) : ~SepAt(text, j)

\* C24: when the item's title contains ' - ', the article's source is what
\* follows the last occurrence and its title is what precedes that
\* occurrence; otherwise the title is the item's and the source is the
\* author, else the feed title, else 'Unknown Source'; the source is stored
\* without blanks at its ends.
C24_SplitAtLastOccurrence ==
  last = "success" =>
    LET title == feed[1].title
        article == newsList[1]
    IN /\ (\E i \in 1..Len(title) : SepAt(title, i)) =>
            /\ article.source = Trim(SubSeq(title, LastSepAt(title) + 3, Len(title)))
            /\ article.title = SubSeq(title, 1, LastSepAt(title) - 1)
       /\ ~(\E i \in 1..Len(title) : SepAt(title, i)) =>
            /\ article.title = title
            /\ article.source = Trim(IF feed[1].author # <<>> THEN feed[1].author
                                     ELSE IF feedTitle # <<>> THEN feedTitle
                                     ELSE UnknownSource)
       /\ article.source = <<>> \/ (article.source[1] # " " /\ article.source[Len(article.source)] # " ")

-----------------------------------------------------------------------------
(* Claims about overlapping fetches and saved settings *)

\* C25: when no request is in flight and no error is shown, every article
\* on screen has the active tab's id as its category.
C25_DisplayedListOfActiveTab ==
  (inflight = EmptyBag /\ error = NoError) =>
    \A i \in 1..Len(DisplayedArticles) : DisplayedArticles[i].category = activeTabId

\* C26: no step stores in the cache, under the id of a tab of the committed
\* list, articles that were fetched with a keyword other than that tab's
\* committed keyword.  (A save empties the cache and only an arriving
\* success stores an entry, so this is the same as: no entry holds articles
\* of another keyword than the committed one.)
C26_NoEntryOfOldKeyword ==
  [][ (ArrivalStep /\ last' = "success") =>
        \A req \in BagToSet(inflight) :
          (inflight' = inflight (-) SetToBag({req}) /\ FindTab(req.tabId, tabs) # 0) =>
             tabs[FindTab(req.tabId, tabs)].keyword = req.keyword
    ]_vars

\* C27: the active tab id is the id of a tab of the committed list.
C27_ActiveTabInCommittedList == activeTabId \in TabIdsOf(tabs)

\* C28: the loading flag is true whenever a request is in flight.
C28_LoadingWhileInFlight == inflight # EmptyBag => loading

\* C29: every cache entry holds at most 12 articles, in non-increasing order
\* of publish date, each with the entry's tab id as its category.
C29_CacheEntriesNormalised ==
  \A tabId \in DOMAIN newsCache :
    LET data == newsCache[tabId].data IN
    /\ Len(data) <= 12
    /\ \A i, j \in 1..Len(data) : i < j => data[i].pubDate >= data[j].pubDate
    /\ \A i \in 1..Len(data) : data[i].category = tabId

\* An entry of 12 articles of two publish dates, made from a longer feed.
C29_Witness ==
  /\ Len(feed) > 12
  /\ activeTabId \in DOMAIN newsCache
  /\ Len(newsCache[activeTabId].data) = 12
  /\ newsCache[activeTabId].data[1].pubDate > newsCache[activeTabId].data[12].pubDate

-----------------------------------------------------------------------------
(* Claims about reordering *)

\* C30: a move-up, move-down or drag-over step leaves the working list with
\* the same tabs, each as often as before and with the same fields; move-up
\* of the first row and move-down of the last row give the same list; and
\* move-up of a row followed by move-down of that row gives the list back.
C30_ReorderingPermutes ==
  /\ [](isSettingsOpen =>
          /\ MovedTabs(editingTabs, 1, "up") = editingTabs
          /\ MovedTabs(editingTabs, Len(editingTabs), "down") = editingTabs
          /\ \A i \in 2..Len(editingTabs) :
               MovedTabs(MovedTabs(editingTabs, i, "up"), i - 1, "down") = editingTabs)
  /\ [][ /\ \A index \in 1..Len(editingTabs), direction \in {"up", "down"} :
              moveTab(index, direction) => SeqToBag(editingTabs') = SeqToBag(editingTabs)
         /\ \A from \in 1..Len(editingTabs), to \in 1..Len(editingTabs) :
              handleDrag(from, to) => SeqToBag(editingTabs') = SeqToBag(editingTabs)
       ]_vars

\* The working list of three tabs after a reordering: the committed tabs and
\* a new one, in another order.
C30_Witness ==
  /\ isSettingsOpen
  /\ Len(editingTabs) = 3
  /\ edits = 2
  /\ \E i \in 1..2 : editingTabs[i] \notin {tabs[k] : k \in 1..Len(tabs)}

====
